---------------------------- MODULE Spec2Model ----------------------------
(***************************************************************************)
(* Credential issuance and delegation routes of comapeo-cloud-client       *)
(* (src/routes/auth.js): POST /auth/register, DELETE /auth/unregister,     *)
(* POST /auth/coordinator (login) and POST /auth/member (delegation).      *)
(*                                                                         *)
(* Strings whose content the handlers inspect (project names, member       *)
(* phone numbers) are sequences of code points, so that                    *)
(* decodeURIComponent and the phone-number regular expression are          *)
(* computed character by character.  Coordinator phone numbers are opaque  *)
(* to the handlers and are plain strings.  Tokens are naturals: the server *)
(* bearer token is 0, generated tokens are 1, 2, ... and "no token" is the *)
(* record NoToken.                                                          *)
(*                                                                         *)
(* A handler that awaits comapeo.listProjects() is three steps: the        *)
(* synchronous prefix up to the await, the resolution of listProjects      *)
(* (which fixes the list the handler will see), and the rest of the        *)
(* handler.  The handlers without an await are one step.                   *)
(*                                                                         *)
(* The createdAt field of the records is written by the handlers and read  *)
(* by none of them; the records of the model carry the other fields.       *)
(***************************************************************************)
EXTENDS Integers, Sequences, FiniteSets, TLC

\* ------------------------------------------------------------------ bounds
\* Number of tokens generateToken may hand out in one behaviour.
MaxTokens == 3

\* Handlers suspended at await listProjects() at one time, when requests
\* overlap.
MaxInFlight == 2

\* ------------------------------------------------------------ input domains
\* Coordinator phone numbers sent by clients.
Phones == {"P1", "P2"}

\* ""                                     (the empty string)
StrEmpty == << >>
\* "A"
StrA == <<65>>
\* "%41", the percent-encoding of "A"
StrPct41 == <<37, 52, 49>>
\* "%2541", the percent-encoding of "%41"
StrPct2541 == <<37, 50, 53, 52, 49>>
\* "%", a malformed escape
StrPct == <<37>>
\* "%25", the percent-encoding of "%"
StrPct25 == <<37, 50, 53>>

\* The project names among the inputs that contain no percent sign: each is
\* its own decoding.
PlainNames == {StrEmpty, StrA}

\* projectName values sent by clients to register and login.
ProjectNameInputs == {StrEmpty, StrA, StrPct41, StrPct2541, StrPct25, StrPct}

\* Names the external project registry may list.
RegistryNames == {StrEmpty, StrA}

\* "abc"
PhoneAbc == <<97, 98, 99>>
\* "12"
Phone12 == <<49, 50>>
\* "1"
Phone1 == <<49>>
\* "012"
Phone012 == <<48, 49, 50>>
\* "+" followed by fifteen digits "123456789012345"
PhonePlus15 == <<43, 49, 50, 51, 52, 53, 54, 55, 56, 57, 48, 49, 50, 51, 52, 53>>
\* sixteen digits "1234567890123456"
Phone16 == <<49, 50, 51, 52, 53, 54, 55, 56, 57, 48, 49, 50, 51, 52, 53, 54>>
\* "1a"
Phone1a == <<49, 97>>

\* memberPhoneNumber values sent by clients to the delegation route.
MemberPhoneInputs == {PhoneAbc, Phone12, Phone1, Phone012, PhonePlus15, Phone16, Phone1a}

\* ------------------------------------------------------------------ values
\* An optional value is a sequence: << >> when absent (undefined), <<v>>
\* when present.
\* The token field of a Coordinator record that was never logged in.
NoToken == << >>

\* The value of a lookup that found nothing (undefined).
Undefined == [undefined |-> TRUE]

\* opts.serverBearerToken, the server-wide secret.  Generated tokens are
\* 1 .. MaxTokens, so no generated token equals it.
serverBearerToken == 0

\* A token value that generateToken never returns within the bounds: what a
\* client that guesses the server token presents.
ForgedToken == MaxTokens + 1

\* Authorization headers a client may send to the delegation route, whose
\* schema requires the header: "Bearer t" for each token generateToken can
\* return (issued already or not).
BearerInputs == {<<t>> : t \in 1 .. MaxTokens}

\* Authorization headers a client may send to the routes guarded by the
\* server token: none (<< >>), the server token, a forged token.
ServerBearerInputs == {<< >>, <<serverBearerToken>>, <<ForgedToken>>}

\* ------------------------------------------------------ decodeURIComponent
\* Value of a hexadecimal digit, -1 for any other character.
HexVal(c) == IF c \in 48 .. 57 THEN c - 48
             ELSE IF c \in 65 .. 70 THEN c - 55
             ELSE IF c \in 97 .. 102 THEN c - 87
             ELSE 0 - 1

\* The byte written as the escape "%XY" at position i of s, -1 when there is
\* no well-formed escape there.
EscapeAt(s, i) == IF i + 2 <= Len(s) /\ s[i] = 37 /\ HexVal(s[i + 1]) >= 0 /\ HexVal(s[i + 2]) >= 0
                  THEN 16 * HexVal(s[i + 1]) + HexVal(s[i + 2])
                  ELSE 0 - 1

\* Number of bytes of the UTF-8 sequence that starts with byte b (0: b is
\* not a lead byte).
Utf8Length(b) == IF b < 128 THEN 1
                 ELSE IF b \in 192 .. 223 THEN 2
                 ELSE IF b \in 224 .. 239 THEN 3
                 ELSE IF b \in 240 .. 247 THEN 4
                 ELSE 0

\* The continuation byte (its low six bits) escaped at position i, -1 when
\* the escape there is missing or is not a continuation byte.
ContinuationAt(s, i) == IF EscapeAt(s, i) \in 128 .. 191 THEN EscapeAt(s, i) - 128 ELSE 0 - 1

\* The code point of the n-byte UTF-8 sequence escaped from position i of
\* s, -1 when the bytes are not the UTF-8 encoding of a code point
\* (truncated, overlong, a surrogate, or beyond U+10FFFF).
Utf8CodePoint(s, i, n) ==
    LET b == EscapeAt(s, i)
        c1 == ContinuationAt(s, i + 3)
        c2 == ContinuationAt(s, i + 6)
        c3 == ContinuationAt(s, i + 9)
        cp2 == (b - 192) * 64 + c1
        cp3 == (b - 224) * 4096 + c1 * 64 + c2
        cp4 == (b - 240) * 262144 + c1 * 4096 + c2 * 64 + c3
    IN  IF n = 1 THEN b
        ELSE IF n = 2 THEN (IF c1 >= 0 /\ cp2 >= 128 THEN cp2 ELSE 0 - 1)
        ELSE IF n = 3 THEN (IF c1 >= 0 /\ c2 >= 0 /\ cp3 >= 2048 /\ cp3 \notin 55296 .. 57343 THEN cp3 ELSE 0 - 1)
        ELSE IF n = 4 THEN (IF c1 >= 0 /\ c2 >= 0 /\ c3 >= 0 /\ cp4 \in 65536 .. 1114111 THEN cp4 ELSE 0 - 1)
        ELSE 0 - 1

\* decodeURIComponent applied to the suffix of s from position i:
\* [ok |-> TRUE, val |-> the decoded string], or ok |-> FALSE when it throws
\* URIError.
RECURSIVE DecodeFrom(_, _)
DecodeFrom(s, i) ==
    IF i > Len(s) THEN [ok |-> TRUE, val |-> << >>]
    ELSE IF s[i] # 37
         THEN LET rest == DecodeFrom(s, i + 1)
              IN  IF rest.ok THEN [ok |-> TRUE, val |-> <<s[i]>> \o rest.val] ELSE rest
         ELSE LET b == EscapeAt(s, i)
                  n == IF b < 0 THEN 0 ELSE Utf8Length(b)
                  cp == IF n = 0 THEN 0 - 1 ELSE Utf8CodePoint(s, i, n)
              IN  IF cp < 0 THEN [ok |-> FALSE, val |-> << >>]
                  ELSE LET rest == DecodeFrom(s, i + 3 * n)
                       IN  IF rest.ok THEN [ok |-> TRUE, val |-> <<cp>> \o rest.val] ELSE rest

\* Mutant: the name is used as sent, without decoding.
decodeURIComponentIdentity(s) == [ok |-> TRUE, val |-> s]

\* decodeURIComponent(s).
decodeURIComponent(s) == DecodeFrom(s, 1)

\* --------------------------------------------------- member phone pattern
\* /^\+?[1-9]\d{1,14}$/u tested against s.
MemberPhoneRegexTest(s) ==
    LET first == IF Len(s) >= 1 /\ s[1] = 43 THEN 2 ELSE 1
        rest == Len(s) - first
    IN  /\ first <= Len(s)
        /\ s[first] \in 49 .. 57
        /\ rest >= 1
        /\ rest <= 14
        /\ \A i \in first + 1 .. Len(s) : s[i] \in 48 .. 57

\* --------------------------------------------------------- Token Generator
\* generateToken(): crypto.randomBytes(32) as hex.  The 256 random bits are
\* modelled as freshness: the n-th call returns the value n, which no
\* earlier call returned.  counter is the number of the next call.
generateToken(counter) == counter

\* ------------------------------------------------------ Bearer Authenticator
\* verifyBearerAuth(req, expectedToken) passes (does not throw): the
\* Authorization header is present and carries exactly expectedToken.
verifyBearerAuth(header, expectedToken) == header = <<expectedToken>>

\* --------------------------------------------------------- Credential Store
\* fastify.db, a store of Coordinator records keyed by phoneNumber and of
\* Member records keyed by phoneNumber.  cs and ms are the sets of stored
\* records.
findCoordinatorByPhone(cs, phoneNumber) ==
    IF \E c \in cs : c.phoneNumber = phoneNumber
    THEN CHOOSE c \in cs : c.phoneNumber = phoneNumber
    ELSE Undefined

findCoordinatorByProject(cs, projectName) ==
    IF \E c \in cs : c.projectName = projectName
    THEN CHOOSE c \in cs : c.projectName = projectName
    ELSE Undefined

\* The project name bound to the coordinator, as an optional value.
findProjectByCoordinatorPhone(cs, phoneNumber) ==
    IF \E c \in cs : c.phoneNumber = phoneNumber
    THEN <<(CHOOSE c \in cs : c.phoneNumber = phoneNumber).projectName>>
    ELSE << >>

deleteCoordinatorByPhone(cs, phoneNumber) == {c \in cs : c.phoneNumber # phoneNumber}

\* Mutant: the record is added and the one stored under the key is kept.
saveCoordinatorAppend(cs, coordinator) == cs \cup {coordinator}

\* Writes the record under its phoneNumber, replacing the record stored
\* under that key.
saveCoordinator(cs, coordinator) ==
    {c \in cs : c.phoneNumber # coordinator.phoneNumber} \cup {coordinator}

findMemberByPhone(ms, phoneNumber) ==
    IF \E m \in ms : m.phoneNumber = phoneNumber
    THEN CHOOSE m \in ms : m.phoneNumber = phoneNumber
    ELSE Undefined

saveMember(ms, member) ==
    {m \in ms : m.phoneNumber # member.phoneNumber} \cup {member}

\* ------------------------------------------------------------------- state
VARIABLES
    coordinators,   \* Coordinator records held by fastify.db
    members,        \* Member records held by fastify.db
    projects,       \* names of the projects comapeo.listProjects() lists
    nextToken,      \* number of the next generateToken() call
    inflight,       \* requests whose handler awaits listProjects()
    last            \* the outcome of the request most recently taken or answered

vars == <<coordinators, members, projects, nextToken, inflight, last>>

\* The outcome of a request: the route, the result ("ok", the error thrown,
\* or "pending" while the handler awaits), the token in the response body,
\* if any, and whether the route's handler ran.
Response(op, result, token) ==
    [op |-> op, result |-> result, token |-> token, handled |-> TRUE]

\* The outcome of a request that the route's preHandler rejected.
Rejected(op) == [Response(op, "Unauthorized", << >>) EXCEPT !.handled = FALSE]

Init ==
    /\ coordinators = {}
    /\ members = {}
    /\ projects \in SUBSET RegistryNames
    /\ nextToken = 1
    /\ inflight = {}
    /\ last = Response("none", "none", << >>)

\* ------------------------------------------------------ external registry
\* The project registry is not owned by this service: projects appear and
\* disappear independently of the Credential Store.
ProjectAdded(name) ==
    /\ name \notin projects
    /\ projects' = projects \cup {name}
    /\ UNCHANGED <<coordinators, members, nextToken, inflight, last>>

ProjectRemoved(name) ==
    /\ name \in projects
    /\ projects' = projects \ {name}
    /\ UNCHANGED <<coordinators, members, nextToken, inflight, last>>

\* ------------------------------------------------------- handler fragments
\* Mutant: register leaves the phone number's existing record in place.
RemoveExistingNever(cs, phoneNumber) == cs

\* Mutant: register deletes the existing record only when it has no token.
RemoveExistingWithoutToken(cs, phoneNumber) ==
    {c \in cs : c.phoneNumber # phoneNumber \/ c.token # << >>}

\* register, lines 64-73: the store after the existing coordinator of the
\* phone number, if any, is deleted.
RemoveExisting(cs, phoneNumber) ==
    IF findCoordinatorByPhone(cs, phoneNumber) # Undefined
    THEN deleteCoordinatorByPhone(cs, phoneNumber)
    ELSE cs

\* Mutant: the store is not searched for the project name.
ProjectNameTakenNever(cs, decodedProjectName) == FALSE

\* Mutant: only coordinators that have logged in count as holding a name.
ProjectNameTakenLoggedIn(cs, decodedProjectName) ==
    \E c \in cs : c.projectName = decodedProjectName /\ c.token # << >>

\* register, lines 76-81: some stored coordinator holds the decoded name.
ProjectNameTaken(cs, decodedProjectName) ==
    findCoordinatorByProject(cs, decodedProjectName) # Undefined

\* Mutant: the project list is not searched.
ProjectListedNever(listed, decodedProjectName) == FALSE

\* projects.find((p) => p.name === decodedProjectName) finds a project.
ProjectListed(listed, decodedProjectName) ==
    \E p \in listed : p = decodedProjectName

\* Mutant: the supplied name is decoded before it is compared.
ProjectNameMismatchDecoded(coordinator, projectName) ==
    coordinator.projectName # decodeURIComponent(projectName).val

\* login, line 201: coordinator.projectName !== projectName.
ProjectNameMismatch(coordinator, projectName) ==
    coordinator.projectName # projectName

\* delegation, line 274: !coordinator || !coordinator.token.
NoCoordinatorToken(coordinator) ==
    coordinator = Undefined \/ coordinator.token = NoToken

\* delegation, line 287: !projectName, which holds of undefined and of the
\* empty string.
NoProjectName(projectName) ==
    projectName = << >> \/ projectName[1] = << >>

\* Mutant: the bearer token is not compared with the coordinator's token.
BearerMismatchNever(bearer, coordinator) == FALSE

\* Mutant: any token that was ever issued is accepted, whoever holds it.
BearerMismatchUnissued(bearer, coordinator) == bearer[1] >= nextToken

\* delegation, line 296: verifyBearerAuth(req, coordinator.token) throws.
BearerMismatch(bearer, coordinator) ==
    ~verifyBearerAuth(bearer, coordinator.token[1])

\* Mutant: register stamps a credential on the record it creates.
NewCoordinatorWithToken(phoneNumber, decodedProjectName) ==
    [phoneNumber |-> phoneNumber, projectName |-> decodedProjectName,
     token |-> <<serverBearerToken>>]

\* register, lines 92-96: the coordinator object register creates; it has
\* no token field.
NewCoordinator(phoneNumber, decodedProjectName) ==
    [phoneNumber |-> phoneNumber, projectName |-> decodedProjectName,
     token |-> NoToken]

\* Mutant: login keeps the token of a coordinator that already has one.
WithTokenKeepFirst(coordinator, token) ==
    IF coordinator.token # NoToken THEN coordinator
    ELSE [coordinator EXCEPT !.token = <<token>>]

\* login, lines 225-229: { ...coordinator, token, createdAt }.
WithToken(coordinator, token) == [coordinator EXCEPT !.token = <<token>>]

\* Mutant: unregister does not test whether the coordinator exists.
NoCoordinatorNever(coordinator) == FALSE

\* unregister, line 144: !coordinator.
NoCoordinator(coordinator) == coordinator = Undefined

\* Mutant: the route has no preHandler.
PreHandlerAcceptsAny(bearer) == TRUE

\* preHandler, lines 48-50 (130-132, 180-182): verifyBearerAuth(req,
\* serverBearerToken) returns without throwing.
PreHandlerAccepts(bearer) == verifyBearerAuth(bearer, serverBearerToken)

\* Mutant: the Member record's projectName is filled from the wrong field.
NewMemberWrongProject(memberPhoneNumber, memberToken, coordinator, projectName) ==
    [phoneNumber |-> memberPhoneNumber, token |-> memberToken,
     coordinatorPhone |-> coordinator.phoneNumber, projectName |-> memberPhoneNumber]

\* delegation, lines 323-329: the Member object the handler saves.
NewMember(memberPhoneNumber, memberToken, coordinator, projectName) ==
    [phoneNumber |-> memberPhoneNumber, token |-> memberToken,
     coordinatorPhone |-> coordinator.phoneNumber, projectName |-> projectName]

\* Tokens remain for every login that awaits and for one more request.
TokensLeft ==
    nextToken + Cardinality({r \in inflight : r.op = "login"}) <= MaxTokens

\* The request record of a handler suspended at await listProjects().
Awaiting(op, phoneNumber, projectName, decodedProjectName, coordinator) ==
    [op |-> op, phoneNumber |-> phoneNumber, projectName |-> projectName,
     decodedProjectName |-> decodedProjectName, coordinator |-> coordinator,
     resolved |-> FALSE, projects |-> {}]

\* ------------------------------------------------------------- preHandler
\* The preHandler of register, unregister and login: verifyBearerAuth(req,
\* serverBearerToken) throws, and the route's handler does not run (the
\* request body is never read).  k is the number of requests the server
\* handles at a time.
PreHandlerReject(k, op, bearer) ==
    /\ Cardinality(inflight) < k
    /\ ~PreHandlerAccepts(bearer)
    /\ last' = Rejected(op)
    /\ UNCHANGED <<coordinators, members, projects, nextToken, inflight>>

\* ------------------------------------------------------ POST /auth/register
\* The handler, entered once the preHandler has accepted the bearer token,
\* up to await listProjects().
RegisterStart(k, phoneNumber, projectName, bearer) ==
    LET decoded == decodeURIComponent(projectName)
        existingCoordinator == findCoordinatorByPhone(coordinators, phoneNumber)
        remaining == RemoveExisting(coordinators, phoneNumber)
        fail(result) == Response("register", result, << >>)
    IN  /\ Cardinality(inflight) < k
        /\ PreHandlerAccepts(bearer)
        /\ UNCHANGED <<members, projects, nextToken>>
        /\ IF ~decoded.ok
           THEN /\ last' = fail("URIError")
                /\ UNCHANGED <<coordinators, inflight>>
           ELSE IF ProjectNameTaken(remaining, decoded.val)
           THEN /\ coordinators' = remaining
                /\ last' = fail("Conflict")
                /\ UNCHANGED inflight
           ELSE /\ coordinators' = remaining
                /\ inflight' = inflight \cup {Awaiting("register", phoneNumber, projectName, decoded.val, existingCoordinator)}
                /\ last' = Response("register", "pending", << >>)

\* listProjects() resolves for the suspended request r with the projects
\* the registry lists at that moment.
ListProjectsResolve(r) ==
    /\ r \in inflight
    /\ ~r.resolved
    /\ inflight' = (inflight \ {r}) \cup {[r EXCEPT !.resolved = TRUE, !.projects = projects]}
    /\ UNCHANGED <<coordinators, members, projects, nextToken, last>>

\* The register handler from the resolved await to its return.
RegisterResume(r) ==
    /\ r \in inflight
    /\ r.op = "register"
    /\ r.resolved
    /\ inflight' = inflight \ {r}
    /\ UNCHANGED <<members, projects, nextToken>>
    /\ IF ProjectListed(r.projects, r.decodedProjectName)
       THEN /\ last' = Response("register", "Conflict", << >>)
            /\ UNCHANGED coordinators
       ELSE /\ coordinators' = saveCoordinator(coordinators,
                    NewCoordinator(r.phoneNumber, r.decodedProjectName))
            /\ last' = Response("register", "ok", << >>)

\* --------------------------------------------------- DELETE /auth/unregister
Unregister(k, phoneNumber, bearer) ==
    LET coordinator == findCoordinatorByPhone(coordinators, phoneNumber)
        respond(result) == Response("unregister", result, << >>)
    IN  /\ Cardinality(inflight) < k
        /\ PreHandlerAccepts(bearer)
        /\ UNCHANGED <<members, projects, nextToken, inflight>>
        /\ IF NoCoordinator(coordinator)
           THEN /\ last' = respond("NotFound")
                /\ UNCHANGED coordinators
           ELSE /\ coordinators' = deleteCoordinatorByPhone(coordinators, phoneNumber)
                /\ last' = respond("ok")

\* --------------------------------------------------- POST /auth/coordinator
\* The login handler, entered once the preHandler has accepted the bearer
\* token, up to await listProjects().
LoginStart(k, phoneNumber, projectName, bearer) ==
    LET coordinator == findCoordinatorByPhone(coordinators, phoneNumber)
        decoded == decodeURIComponent(coordinator.projectName)
        fail(result) == Response("login", result, << >>)
    IN  /\ Cardinality(inflight) < k
        /\ PreHandlerAccepts(bearer)
        /\ UNCHANGED <<coordinators, members, projects, nextToken>>
        /\ IF coordinator = Undefined
           THEN /\ last' = fail("Unauthorized")
                /\ UNCHANGED inflight
           ELSE IF ProjectNameMismatch(coordinator, projectName)
           THEN /\ last' = fail("Unauthorized")
                /\ UNCHANGED inflight
           ELSE IF ~decoded.ok
           THEN /\ last' = fail("URIError")
                /\ UNCHANGED inflight
           ELSE /\ TokensLeft
                /\ inflight' = inflight \cup {Awaiting("login", phoneNumber, projectName, decoded.val, coordinator)}
                /\ last' = Response("login", "pending", << >>)

\* The login handler from the resolved await to its return.
LoginResume(r) ==
    LET token == generateToken(nextToken)
    IN  /\ r \in inflight
        /\ r.op = "login"
        /\ r.resolved
        /\ inflight' = inflight \ {r}
        /\ UNCHANGED <<members, projects>>
        /\ IF ~ProjectListed(r.projects, r.decodedProjectName)
           THEN /\ last' = Response("login", "ProjectNotFound", << >>)
                /\ UNCHANGED <<coordinators, nextToken>>
           ELSE /\ nextToken' = nextToken + 1
                /\ coordinators' = saveCoordinator(coordinators,
                        WithToken(r.coordinator, token))
                /\ last' = Response("login", "ok", <<token>>)

\* -------------------------------------------------------- POST /auth/member
\* The route's schema requires an Authorization header, so the handler runs
\* only for requests that carry one.
DelegateMember(k, coordPhoneNumber, memberPhoneNumber, bearer) ==
    LET coordinator == findCoordinatorByPhone(coordinators, coordPhoneNumber)
        projectName == findProjectByCoordinatorPhone(coordinators, coordPhoneNumber)
        memberToken == generateToken(nextToken)
        fail(result) == Response("member", result, << >>)
    IN  /\ Cardinality(inflight) < k
        /\ UNCHANGED <<coordinators, projects, inflight>>
        /\ IF NoCoordinatorToken(coordinator)
           THEN /\ last' = fail("Unauthorized")
                /\ UNCHANGED <<members, nextToken>>
           ELSE IF NoProjectName(projectName)
           THEN /\ last' = fail("Unauthorized")
                /\ UNCHANGED <<members, nextToken>>
           ELSE IF BearerMismatch(bearer, coordinator)
           THEN /\ last' = fail("Unauthorized")
                /\ UNCHANGED <<members, nextToken>>
           ELSE IF ~MemberPhoneRegexTest(memberPhoneNumber)
           THEN /\ last' = fail("BadRequest")
                /\ UNCHANGED <<members, nextToken>>
           ELSE IF findMemberByPhone(members, memberPhoneNumber) # Undefined
           THEN /\ last' = fail("BadRequest")
                /\ UNCHANGED <<members, nextToken>>
           ELSE /\ TokensLeft
                /\ nextToken' = nextToken + 1
                /\ members' = saveMember(members,
                        NewMember(memberPhoneNumber, memberToken, coordinator, projectName[1]))
                /\ last' = Response("member", "ok", <<memberToken>>)

\* ------------------------------------------------------------ specification
\* Requests are handled one at a time: a request is taken only when no
\* handler is suspended.
Next ==
    \/ \E op \in {"register", "unregister", "login"}, b \in ServerBearerInputs : PreHandlerReject(1, op, b)
    \/ \E name \in RegistryNames : ProjectAdded(name)
    \/ \E name \in RegistryNames : ProjectRemoved(name)
    \/ \E p \in Phones, n \in ProjectNameInputs, b \in ServerBearerInputs : RegisterStart(1, p, n, b)
    \/ \E r \in inflight : ListProjectsResolve(r)
    \/ \E r \in inflight : RegisterResume(r)
    \/ \E p \in Phones, b \in ServerBearerInputs : Unregister(1, p, b)
    \/ \E p \in Phones, n \in ProjectNameInputs, b \in ServerBearerInputs : LoginStart(1, p, n, b)
    \/ \E r \in inflight : LoginResume(r)
    \/ \E c \in Phones, m \in MemberPhoneInputs, b \in BearerInputs : DelegateMember(1, c, m, b)

Spec == Init /\ [][Next]_vars

\* Requests overlap: the server takes a new register, unregister or login
\* request while handlers are suspended at await listProjects(), up to
\* MaxInFlight of them.  The requests carry the server token and project
\* names without percent signs.
NextConc ==
    \/ \E name \in RegistryNames : ProjectAdded(name)
    \/ \E name \in RegistryNames : ProjectRemoved(name)
    \/ \E p \in Phones, n \in PlainNames : RegisterStart(MaxInFlight, p, n, <<serverBearerToken>>)
    \/ \E r \in inflight : ListProjectsResolve(r)
    \/ \E r \in inflight : RegisterResume(r)
    \/ \E p \in Phones : Unregister(MaxInFlight + 1, p, <<serverBearerToken>>)
    \/ \E p \in Phones, n \in PlainNames : LoginStart(MaxInFlight, p, n, <<serverBearerToken>>)
    \/ \E r \in inflight : LoginResume(r)

SpecConc == Init /\ [][NextConc]_vars

\* ------------------------------------------------------------- properties
\* The Coordinator records stored in cs under a phone number.
RecordsOf(cs, phoneNumber) == {c \in cs : c.phoneNumber = phoneNumber}

\* The stored coordinator of a phone number, or Undefined.
Stored(phoneNumber) == findCoordinatorByPhone(coordinators, phoneNumber)

\* Some coordinator other than phoneNumber holds the project name.
HeldByOther(phoneNumber, name) ==
    \E c \in coordinators : c.phoneNumber # phoneNumber /\ c.projectName = name

\* The records of the coordinators other than phoneNumber are the same after
\* the step as before it.
OthersUnchanged(phoneNumber) ==
    {c \in coordinators : c.phoneNumber # phoneNumber} = {c \in coordinators' : c.phoneNumber # phoneNumber}

\* C1: whatever register, unregister, login and delegation requests have
\* run to completion, one at a time, no two stored coordinators with
\* different phone numbers hold the same projectName.
C1_ProjectNameUnique ==
    \A c1, c2 \in coordinators :
        c1.phoneNumber # c2.phoneNumber => c1.projectName # c2.projectName

\* Two coordinators are stored (one of them logged in), a member was
\* delegated, and a registration just succeeded.
C1_Witness ==
    /\ \E c1, c2 \in coordinators : c1.phoneNumber # c2.phoneNumber /\ c1.token # NoToken
    /\ members # {}
    /\ last = Response("register", "ok", << >>)

C3_OneRecordPerPhone ==
    \A p \in Phones : Cardinality(RecordsOf(coordinators, p)) <= 1

\* A login just stamped a token on the record of a coordinator, and that
\* coordinator still has exactly one record.
C3_Witness ==
    /\ last.op = "login"
    /\ last.result = "ok"
    /\ \E p \in Phones : \E c \in coordinators :
            /\ RecordsOf(coordinators, p) = {c}
            /\ c.token = last.token

\* The record register writes: the phone number bound to the name, no
\* token.
Registered(phoneNumber, name) ==
    [phoneNumber |-> phoneNumber, projectName |-> name, token |-> NoToken]

\* The project names among the inputs that are well-formed percent-encodings
\* and what each encodes, written out by hand: "%41" encodes "A", "%2541"
\* encodes "%41", "%25" encodes "%", and "" and "A" encode themselves.
Decodable == ProjectNameInputs \ {StrPct}
Decoding(n) ==
    CASE n = StrPct41 -> StrA
      [] n = StrPct2541 -> StrPct41
      [] n = StrPct25 -> StrPct
      [] OTHER -> n

\* A step in which the register handler is entered for (phoneNumber,
\* projectName) by a request carrying the server token.
RegisterCalled(phoneNumber, projectName) ==
    RegisterStart(1, phoneNumber, projectName, <<serverBearerToken>>)

\* A step in which the login handler is entered for (phoneNumber,
\* projectName) by a request carrying the server token.
LoginCalled(phoneNumber, projectName) ==
    LoginStart(1, phoneNumber, projectName, <<serverBearerToken>>)

\* C4, as stated, with the names taken as the strings the client sends
\* (well-formed percent-encodings): register(P, B) for a B that no other
\* coordinator holds and the registry does not list is accepted and leaves
\* exactly one record for P, bound to B; and login(P, A) for a name A other
\* than the one P is bound to is refused with Unauthorized.
C4_BoundToNameSent ==
    [][/\ (last'.op = "register" /\ last'.result # "pending")
            => \A p \in Phones, n \in Decodable :
                    ~HeldByOther(p, n) => ~RegisterCalled(p, n)
       /\ last'.op = "register"
            => \A r \in inflight :
                    (r.projectName \notin r.projects /\ RegisterResume(r))
                    => /\ last'.result = "ok"
                       /\ RecordsOf(coordinators', r.phoneNumber) = {Registered(r.phoneNumber, r.projectName)}
       /\ (last'.op = "login" /\ last'.result # "Unauthorized")
            => \A p \in Phones, a \in ProjectNameInputs :
                    (Stored(p) # Undefined /\ a # Stored(p).projectName) => ~LoginCalled(p, a)]_vars

\* C4, amended: register(P, B) for a B that decodes to a name D that no
\* other coordinator holds and the registry does not list is accepted and
\* leaves exactly one record for P, bound to D and without a token; and
\* login(P, A) for a name A other than the one P is bound to is refused with
\* Unauthorized.
C4_BoundToDecodedName ==
    [][/\ (last'.op = "register" /\ last'.result # "pending")
            => \A p \in Phones, n \in Decodable :
                    ~HeldByOther(p, Decoding(n)) => ~RegisterCalled(p, n)
       /\ last'.op = "register"
            => \A r \in inflight :
                    (Decoding(r.projectName) \notin r.projects /\ RegisterResume(r))
                    => /\ last'.result = "ok"
                       /\ RecordsOf(coordinators', r.phoneNumber) = {Registered(r.phoneNumber, Decoding(r.projectName))}
       /\ (last'.op = "login" /\ last'.result # "Unauthorized")
            => \A p \in Phones, a \in ProjectNameInputs :
                    (Stored(p) # Undefined /\ a # Stored(p).projectName) => ~LoginCalled(p, a)]_vars

\* A coordinator that was bound to "A" when it delegated a member has since
\* registered again under another name (its record is bound to "%41" and
\* has no token), and a login was then refused with Unauthorized.
C4_Witness ==
    /\ last = Response("login", "Unauthorized", << >>)
    /\ \E m \in members :
            /\ m.projectName = StrA
            /\ RecordsOf(coordinators, m.coordinatorPhone) = {Registered(m.coordinatorPhone, StrPct41)}

\* C5, as stated: while some coordinator A holds the name N (a well-formed
\* percent-encoding), register(B, N) by another phone B is refused with
\* Conflict, leaves no record for B and leaves the other coordinators'
\* records as they were.
C5_ConflictOnNameSent ==
    [][last'.op = "register"
            => \A p \in Phones, n \in Decodable :
                    (HeldByOther(p, n) /\ RegisterCalled(p, n))
                    => /\ last'.result = "Conflict"
                       /\ RecordsOf(coordinators', p) = {}
                       /\ OthersUnchanged(p)]_vars

\* C5, amended: while some coordinator A holds the name N, register(B, E)
\* by another phone B for any E that decodes to N is refused with Conflict,
\* leaves no record for B and leaves the other coordinators' records as they
\* were.
C5_ConflictOnDecodedName ==
    [][last'.op = "register"
            => \A p \in Phones, n \in Decodable :
                    (HeldByOther(p, Decoding(n)) /\ RegisterCalled(p, n))
                    => /\ last'.result = "Conflict"
                       /\ RecordsOf(coordinators', p) = {}
                       /\ OthersUnchanged(p)]_vars

\* A registration was just refused with Conflict while a logged-in
\* coordinator holds a name, and the refused phone has no record.
C5_Witness ==
    /\ last = Response("register", "Conflict", << >>)
    /\ \E c \in coordinators : c.token # NoToken /\ c.projectName \notin projects
    /\ Cardinality(coordinators) = 1

\* C6: login(P, N) for a coordinator P bound to N, whose listProjects()
\* result lists no project named N, is refused with ProjectNotFound and
\* leaves the Coordinator store as it was.
C6_ProjectNotFound ==
    [][last'.op = "login"
            => \A r \in inflight :
                    (r.coordinator.projectName \notin r.projects /\ LoginResume(r))
                    => /\ last'.result = "ProjectNotFound"
                       /\ coordinators' = coordinators]_vars

\* A phone number as the claims describe it: an optional "+", then 2 to 15
\* digits of which the first is 1-9.
WellFormedPhone(s) ==
    LET digits == IF Len(s) > 0 /\ Head(s) = 43 THEN Tail(s) ELSE s
    IN  /\ Len(digits) \in 2 .. 15
        /\ digits[1] \in 49 .. 57
        /\ \A i \in DOMAIN digits : digits[i] \in 48 .. 57

\* The bearer token is the token stored for the coordinator.
PresentsStoredToken(coordPhoneNumber, bearer) ==
    Stored(coordPhoneNumber) # Undefined /\ Stored(coordPhoneNumber).token = bearer

\* C7: delegateMember(C, M, T), where T is the token stored for C by its
\* login, M is well-formed and no Member exists for M, succeeds, returns a
\* token other than T and adds the Member record {M, returned token, C,
\* C's projectName}.
C7_DelegationSucceeds ==
    [][last'.op = "member"
            => \A c \in Phones, m \in MemberPhoneInputs, b \in BearerInputs :
                    (/\ PresentsStoredToken(c, b)
                     /\ WellFormedPhone(m)
                     /\ findMemberByPhone(members, m) = Undefined
                     /\ DelegateMember(1, c, m, b))
                    => /\ last'.result = "ok"
                       /\ last'.token # b
                       /\ members' = members \cup
                            {[phoneNumber |-> m, token |-> last'.token[1], coordinatorPhone |-> c,
                              projectName |-> Stored(c).projectName]}]_vars

\* C8: once a Member record exists for M, delegateMember for M by a
\* coordinator presenting its stored token is refused with BadRequest, and no
\* step changes or removes a stored Member record.
C8_MemberImmutable ==
    [][/\ last'.op = "member"
            => \A c \in Phones, m \in MemberPhoneInputs, b \in BearerInputs :
                    (/\ PresentsStoredToken(c, b)
                     /\ findMemberByPhone(members, m) # Undefined
                     /\ DelegateMember(1, c, m, b))
                    => last'.result = "BadRequest"
       /\ \A m \in members : m \in members']_vars

\* C9: delegateMember by a coordinator presenting its stored token, for a
\* member phone number that is not well-formed, is refused with BadRequest
\* and leaves both stores as they were.
C9_MalformedPhone ==
    [][last'.op = "member"
            => \A c \in Phones, m \in MemberPhoneInputs, b \in BearerInputs :
                    (/\ PresentsStoredToken(c, b)
                     /\ ~WellFormedPhone(m)
                     /\ DelegateMember(1, c, m, b))
                    => /\ last'.result = "BadRequest"
                       /\ UNCHANGED <<members, coordinators>>]_vars

\* C10: delegateMember for a coordinator C with a bearer token other than
\* the token stored for C (C absent, C without a token, or C holding another
\* token) is refused with Unauthorized and leaves the Member store as it
\* was: a delegation step that is not such a refusal is no request with
\* such a token.
C10_WrongTokenUnauthorized ==
    [][(last'.op = "member" /\ ~(last'.result = "Unauthorized" /\ members' = members))
            => \A c \in Phones, m \in MemberPhoneInputs, b \in BearerInputs :
                    ~PresentsStoredToken(c, b) => ~DelegateMember(1, c, m, b)]_vars

\* A delegation was just refused with Unauthorized while one coordinator is
\* logged in under a non-empty project name, another is registered without a
\* token, and a member exists.
C10_Witness ==
    /\ last = Response("member", "Unauthorized", << >>)
    /\ \E c1, c2 \in coordinators :
            /\ c1.token # NoToken
            /\ c1.projectName # StrEmpty
            /\ c2.token = NoToken
    /\ members # {}

\* C11: a token appears on a stored Coordinator record only in the step in
\* which a login for that phone succeeds; a record that register writes has
\* no token, whatever record the phone had before; and a delegation for a
\* coordinator whose record has no token is refused with Unauthorized and
\* creates no Member.
C11_TokenOnlyFromLogin ==
    [][/\ \A c \in coordinators' :
            c.token # NoToken
            => \/ \E c0 \in coordinators : c0.phoneNumber = c.phoneNumber /\ c0.token = c.token
               \/ /\ last' = Response("login", "ok", c.token)
                  /\ \E r \in inflight : r.phoneNumber = c.phoneNumber /\ LoginResume(r)
       /\ (last'.op = "register" /\ last'.result = "ok")
            => \A r \in inflight :
                    RegisterResume(r)
                    => \A c \in RecordsOf(coordinators', r.phoneNumber) : c.token = NoToken
       /\ (last'.op = "member" /\ ~(last'.result = "Unauthorized" /\ members' = members))
            => \A c \in Phones, m \in MemberPhoneInputs, b \in BearerInputs :
                    (Stored(c) # Undefined /\ Stored(c).token = NoToken)
                    => ~DelegateMember(1, c, m, b)]_vars

\* A coordinator that delegated a member has registered again: it is the
\* only coordinator stored, its record has no token, and a delegation was
\* then refused with Unauthorized.
C11_Witness ==
    /\ last = Response("member", "Unauthorized", << >>)
    /\ \E m \in members :
            coordinators = {Registered(m.coordinatorPhone, m.projectName)}

\* A token that generateToken has already returned.
Issued(bearer) == bearer[1] < nextToken

\* C12: a login for P that succeeds while P's record already carries the
\* token T1 of an earlier login returns a token T2 other than T1 and leaves
\* T2 as P's stored token; and a delegation for P that presents an issued
\* token other than P's stored one (such as T1 afterwards) is refused with
\* Unauthorized and creates no Member.
C12_LatestLoginTokenOnly ==
    [][/\ (last'.op = "login" /\ last'.result = "ok")
            => \A r \in inflight :
                    (Stored(r.phoneNumber) # Undefined /\ Stored(r.phoneNumber).token # NoToken
                        /\ LoginResume(r))
                    => /\ last'.token # Stored(r.phoneNumber).token
                       /\ \A c \in RecordsOf(coordinators', r.phoneNumber) : c.token = last'.token
                       /\ RecordsOf(coordinators', r.phoneNumber) # {}
       /\ (last'.op = "member" /\ ~(last'.result = "Unauthorized" /\ members' = members))
            => \A c \in Phones, m \in MemberPhoneInputs, b \in BearerInputs :
                    (Issued(b) /\ Stored(c) # Undefined /\ Stored(c).token \notin {NoToken, b})
                    => ~DelegateMember(1, c, m, b)]_vars

\* Two logins have succeeded and nothing else drew a token: the only
\* coordinator stored holds the token of the second login, a delegation was
\* then refused with Unauthorized, and no Member exists.
C12_Witness ==
    /\ last = Response("member", "Unauthorized", << >>)
    /\ nextToken = 3
    /\ members = {}
    /\ \E c \in coordinators : coordinators = {c} /\ c.token = <<2>> /\ c.projectName # StrEmpty

\* C13: unregister(P) answers NotFound and changes neither store when no
\* Coordinator exists for P; otherwise it succeeds, removes exactly P's
\* record from the Coordinator store and leaves the Member store as it was,
\* Members delegated by P included.
C13_UnregisterFrame ==
    [][(last'.op = "unregister" /\ last'.handled)
            => \A p \in Phones :
                    Unregister(1, p, <<serverBearerToken>>)
                    => IF Stored(p) = Undefined
                       THEN /\ last'.result = "NotFound"
                            /\ UNCHANGED <<coordinators, members>>
                       ELSE /\ last'.result = "ok"
                            /\ coordinators' = coordinators \ {Stored(p)}
                            /\ RecordsOf(coordinators', p) = {}
                            /\ members' = members]_vars

\* An unregister just succeeded: a Member remains whose coordinator has no
\* record any more, while another coordinator is still stored.
C13_Witness ==
    /\ last = Response("unregister", "ok", << >>)
    /\ coordinators # {}
    /\ \E m \in members : RecordsOf(coordinators, m.coordinatorPhone) = {}

\* The authorization headers that do not present the server bearer token:
\* no header, or another token.
NotServerToken == ServerBearerInputs \ {<<serverBearerToken>>}

\* C14: a register, unregister or login request that does not present the
\* server bearer token never enters its handler; it is answered
\* Unauthorized by the preHandler, and that step leaves the Coordinator
\* store (and the Member store) as it was.
C14_ServerTokenRequired ==
    [][/\ (last'.handled /\ last'.op = "register")
            => \A b \in NotServerToken, p \in Phones, n \in ProjectNameInputs :
                    ~RegisterStart(1, p, n, b)
       /\ (last'.handled /\ last'.op = "login")
            => \A b \in NotServerToken, p \in Phones, n \in ProjectNameInputs :
                    ~LoginStart(1, p, n, b)
       /\ (last'.handled /\ last'.op = "unregister")
            => \A b \in NotServerToken, p \in Phones : ~Unregister(1, p, b)
       /\ ~last'.handled
            => \A b \in NotServerToken, op \in {"register", "unregister", "login"} :
                    PreHandlerReject(1, op, b)
                    => /\ last'.result = "Unauthorized"
                       /\ UNCHANGED <<coordinators, members>>]_vars

\* A register request was just rejected by the preHandler while a
\* logged-in coordinator is stored.
C14_Witness ==
    /\ last = Rejected("register")
    /\ \E c \in coordinators : c.token # NoToken

\* C15: register(P, N) called while P has a record removes that record
\* before the conflict check: whether the call is refused with Conflict at
\* once (N held by another coordinator) or goes on to ask the registry, P
\* has no record after that step and the other records are as they were;
\* and when the call is refused with Conflict after the registry listed N,
\* no record exists for P.
C15_DeletedBeforeConflictCheck ==
    [][(last'.handled /\ last'.op = "register")
            => /\ \A p \in Phones, n \in Decodable :
                    (Stored(p) # Undefined /\ RegisterCalled(p, n))
                    => /\ last'.result \in {"Conflict", "pending"}
                       /\ RecordsOf(coordinators', p) = {}
                       /\ OthersUnchanged(p)
               /\ \A r \in inflight :
                    (r.resolved /\ ProjectListed(r.projects, Decoding(r.projectName)) /\ RegisterResume(r))
                    => /\ last'.result = "Conflict"
                       /\ RecordsOf(coordinators', r.phoneNumber) = {}]_vars

\* A registration was just refused with Conflict and no coordinator is
\* stored, although a Member exists that a logged-in coordinator once
\* delegated: that coordinator's binding and token are gone.
C15_Witness ==
    /\ last = Response("register", "Conflict", << >>)
    /\ coordinators = {}
    /\ members # {}

\* C16, as stated, for names without percent signs: register(P, N) called
\* while P's record is bound to N and no other coordinator holds N is not
\* refused with Conflict, neither at once nor after the registry lookup,
\* and leaves exactly one record for P, bound to N.
C16_NoConflictOnOwnName ==
    [][(last'.handled /\ last'.op = "register")
            => /\ \A p \in Phones, n \in PlainNames :
                    (Stored(p) # Undefined /\ Stored(p).projectName = n
                        /\ ~HeldByOther(p, n) /\ RegisterCalled(p, n))
                    => last'.result = "pending"
               /\ \A r \in inflight :
                    (r.resolved /\ r.coordinator # Undefined
                        /\ r.projectName \in PlainNames
                        /\ r.coordinator.projectName = r.projectName /\ RegisterResume(r))
                    => /\ last'.result = "ok"
                       /\ \E c \in coordinators' :
                            /\ RecordsOf(coordinators', r.phoneNumber) = {c}
                            /\ c.projectName = r.projectName]_vars

\* C16, amended: register(P, E) called while P's record is bound to the
\* decoding N of E does not conflict with P's own record: it is not refused
\* at the store check, and when the registry lookup does not list N it
\* succeeds and leaves exactly one record for P, bound to N and without a
\* token.
C16_NoSelfConflict ==
    [][(last'.handled /\ last'.op = "register")
            => /\ \A p \in Phones, n \in Decodable :
                    (Stored(p) # Undefined /\ Stored(p).projectName = Decoding(n)
                        /\ RegisterCalled(p, n))
                    => last'.result = "pending"
               /\ \A r \in inflight :
                    (r.resolved /\ r.coordinator # Undefined
                        /\ r.coordinator.projectName = Decoding(r.projectName)
                        /\ ~ProjectListed(r.projects, Decoding(r.projectName))
                        /\ RegisterResume(r))
                    => /\ last'.result = "ok"
                       /\ RecordsOf(coordinators', r.phoneNumber)
                            = {Registered(r.phoneNumber, Decoding(r.projectName))}]_vars

\* A coordinator that delegated a member under its project name has
\* registered again under that name: the registration succeeded, the record
\* is bound to the same name and has no token, and the registry lists the
\* name again.
C16_Witness ==
    /\ last = Response("register", "ok", << >>)
    /\ \E m \in members :
            /\ coordinators = {Registered(m.coordinatorPhone, m.projectName)}
            /\ m.projectName \in projects

\* C17: when register requests overlap at await listProjects(), every
\* reachable state still has at most one Coordinator record per phoneNumber
\* and at most one coordinator per projectName.
C17_UniqueUnderOverlap ==
    /\ \A p \in Phones : Cardinality(RecordsOf(coordinators, p)) <= 1
    /\ \A n \in PlainNames : Cardinality({c \in coordinators : c.projectName = n}) <= 1

\* The (phoneNumber, projectName) bindings of a Coordinator store.
Bindings(cs) == {<<c.phoneNumber, c.projectName>> : c \in cs}

\* C18: the step in which login saves the token leaves the set of
\* (phoneNumber, projectName) bindings of the Coordinator store as it was,
\* also when an unregister or a register for the same phone completed while
\* the login awaited the registry.
C18_LoginKeepsBindings ==
    [][(last'.op = "login" /\ last'.result = "ok")
            => \A r \in inflight :
                    LoginResume(r) => Bindings(coordinators') = Bindings(coordinators)]_vars

\* C19: a delegation request whose bearer token is not the stored token of
\* the coordinator it names (coordinator absent, without a token, or holding
\* another token) and whose memberPhoneNumber is malformed or already
\* registered is refused with Unauthorized, not with BadRequest.
C19_AuthorizationFirst ==
    [][(last'.op = "member" /\ last'.result # "Unauthorized")
            => \A c \in Phones, m \in MemberPhoneInputs, b \in BearerInputs :
                    (/\ ~PresentsStoredToken(c, b)
                     /\ ~WellFormedPhone(m) \/ findMemberByPhone(members, m) # Undefined)
                    => ~DelegateMember(1, c, m, b)]_vars

\* Both well-formed member phones are registered, so every delegation
\* request names a malformed or registered phone; every stored coordinator
\* has a non-empty project name; and a delegation was just refused with
\* Unauthorized.
C19_Witness ==
    /\ last = Response("member", "Unauthorized", << >>)
    /\ Cardinality(members) = 2
    /\ \A c \in coordinators : c.projectName # StrEmpty

\* C20: every Member record is created by a delegation step before which a
\* Coordinator with the record's coordinatorPhone was stored with a token,
\* that token was the bearer token presented, and the coordinator's
\* projectName was the record's projectName.
C20_MemberReferences ==
    [][\A m \in members' \ members :
            \E c \in coordinators :
                /\ c.phoneNumber = m.coordinatorPhone
                /\ c.token # NoToken
                /\ c.projectName = m.projectName
                /\ DelegateMember(1, m.coordinatorPhone, m.phoneNumber, c.token)]_vars

\* A delegation just succeeded: the Member it returned the token of names a
\* stored, logged-in coordinator and carries that coordinator's project
\* name, while another Member exists already.
C20_Witness ==
    /\ last.op = "member"
    /\ last.result = "ok"
    /\ Cardinality(members) = 2
    /\ \E m \in members, c \in coordinators :
            /\ last.token = <<m.token>>
            /\ c.phoneNumber = m.coordinatorPhone
            /\ c.token # NoToken
            /\ c.projectName = m.projectName

\* C21: login compares the supplied projectName with the stored one, neither
\* decoded: login(P, X) for a stored P passes the project check (is not
\* refused with Unauthorized) exactly when X equals the stored projectName;
\* the record an accepted register(P, E) writes holds the decoding of E; and
\* so, while P's record holds the decoding of E, login(P, E) passes the
\* check only if E equals its own decoding.
C21_ComparesUndecoded ==
    [][/\ last'.op = "login"
            => \A p \in Phones, x \in ProjectNameInputs :
                    (Stored(p) # Undefined /\ LoginCalled(p, x))
                    => (last'.result # "Unauthorized" <=> x = Stored(p).projectName)
       /\ (last'.op = "register" /\ last'.result = "ok")
            => \A r \in inflight :
                    RegisterResume(r)
                    => findCoordinatorByPhone(coordinators', r.phoneNumber).projectName
                            = Decoding(r.projectName)
       /\ (last'.op = "login" /\ last'.result # "Unauthorized")
            => \A p \in Phones, e \in Decodable :
                    (/\ Stored(p) # Undefined
                     /\ Stored(p).projectName = Decoding(e)
                     /\ e # Decoding(e))
                    => ~LoginCalled(p, e)]_vars

\* A login that supplied "%41" passed the project check against a record
\* that holds "%41" (the decoding of "%2541", which is what register was
\* sent) and awaits the project list, while the other coordinator's record
\* holds "A", the decoding of "%41".
C21_Witness ==
    /\ last = Response("login", "pending", << >>)
    /\ \E r \in inflight :
            /\ r.op = "login"
            /\ r.projectName = StrPct41
            /\ r.coordinator.projectName = StrPct41
            /\ \E c \in coordinators :
                    /\ c.phoneNumber # r.phoneNumber
                    /\ c.projectName = StrA

=============================================================================
